---- MODULE Spec2Model ----
(***************************************************************************)
(* TenantDropdown (modules/web/web-app/components/layouts/shared/          *)
(* LayoutHeader/TenantDropdown.tsx): a React function component that       *)
(* renders the tenants held by the query layer, sorted by name, as links   *)
(* inside a popover whose visibility is a piece of component state.        *)
(*                                                                         *)
(* The state is the component instance (mounted, open, the dependency the  *)
(* effect last ran with, the committed output), the ambient context        *)
(* (active tenant, organization slug) and the query layer (status, cached  *)
(* data, requests in flight).  Every action is one event followed by the   *)
(* render, commit and effect flush React performs for it.                  *)
(***************************************************************************)
EXTENDS Integers, Sequences, FiniteSets, TLC

\* Longest list-tenants response the model draws.
MaxTenants == 3

----------------------------------------------------------------------------
(* Data: tenant records, organization slugs, query names *)

\* `undefined`, as a tenant-shaped value: useTenant() has no active tenant.
Undefined == [id |-> 0, name |-> "", slug |-> ""]

\* The tenant records of the backend: id, display name, slug.  Two records
\* share a display name, and the names differ in case, so that localeCompare
\* differs from a comparison of code units.
TenantUniverse ==
    { [id |-> 1, name |-> "Beta",  slug |-> "beta"],
      [id |-> 2, name |-> "alpha", slug |-> "alpha"],
      [id |-> 3, name |-> "Alpha", slug |-> "alpha-2"],
      [id |-> 4, name |-> "alpha", slug |-> "alpha-3"] }

OrgSlugs == {"acme", "globex"}

\* Sequences of distinct tenant records, of length at most n.
TenantLists(n) ==
    { s \in UNION { [1..k -> TenantUniverse] : k \in 0..n } :
        \A i, j \in 1..Len(s) : i # j => s[i].id # s[j].id }

Responses == TenantLists(MaxTenants)

----------------------------------------------------------------------------
(* Pure parts of the render *)

\* The collation rank String.prototype.localeCompare orders a name by:
\* alphabetical first, lower case before upper case at the same letters.
CollationKey(s) ==
    CASE s = "alpha" -> 1
      [] s = "Alpha" -> 2
      [] s = "Beta"  -> 3
      [] OTHER       -> 0

\* a.localeCompare(b): negative, zero or positive.
localeCompare(a, b) ==
    IF CollationKey(a) < CollationKey(b) THEN -1
    ELSE IF CollationKey(a) > CollationKey(b) THEN 1
    ELSE 0

\* Variant: the comparator with its operands exchanged (descending order).
compareFnReversed(a, b) == localeCompare(b.name, a.name)

\* (a, b) => a.name.localeCompare(b.name)
compareFn(a, b) == localeCompare(a.name, b.name)

\* Variant: x goes in front of the elements that compare equal to it.
RECURSIVE InsertUnstable(_, _)
InsertUnstable(x, s) ==
    IF s = <<>> THEN <<x>>
    ELSE IF compareFn(x, Head(s)) <= 0 THEN <<x>> \o s
    ELSE <<Head(s)>> \o InsertUnstable(x, Tail(s))

\* Insert x into the sorted sequence s behind every element that does not
\* compare greater than x: the place a stable sort gives the element that
\* came last in the input.
RECURSIVE Insert(_, _)
Insert(x, s) ==
    IF s = <<>> THEN <<x>>
    ELSE IF compareFn(x, Head(s)) < 0 THEN <<x>> \o s
    ELSE <<Head(s)>> \o Insert(x, Tail(s))

\* Array.prototype.sort with compareFn: a stable sort (ECMAScript 2019).
RECURSIVE sort(_)
sort(s) ==
    IF s = <<>> THEN <<>>
    ELSE Insert(s[Len(s)], sort(SubSeq(s, 1, Len(s) - 1)))

\* Variant: a filler record while there is no data.
tenantsSkeleton(d) == IF d.defined THEN d.tenants ELSE <<Undefined>>

\* useQuery(listTenants).data?.tenants ?? []
tenants(d) == IF d.defined THEN d.tenants ELSE <<>>

\* Variant: a query keyed by the organization slug.
QueryKeyPerOrg(g) == g

\* The key of the one query the component observes: listTenants, without
\* input.
QueryKey(g) == "listTenants"

\* Variant: the label read from the first fetched record.
LabelFromList(t, d) == IF tenants(d) = <<>> THEN "" ELSE tenants(d)[1].name

\* <span>{tenant?.name}</span>; d is the query data, which the label does
\* not read.
Label(t, d) == IF t = Undefined THEN "" ELSE t.name

\* <CommandEmpty>No tenant found.</CommandEmpty>
CommandEmpty == "No tenant found."

\* Variant: the link built from the name instead of the slug.
TenantRowByName(t, g) ==
    [key |-> t.id, to |-> "/" \o g \o "/" \o t.name, text |-> t.name]

\* <Link key={tenant.id} to={`/${org}/${tenant.slug}`}>
\*   <CommandItem key={tenant.id}>{tenant.name}</CommandItem></Link>
TenantRow(t, g) ==
    [key |-> t.id, to |-> "/" \o g \o "/" \o t.slug, text |-> t.name]

\* <Link to={`/${org}/tenants/new`}> ... New tenant
NewTenant(g) == [to |-> "/" \o g \o "/tenants/new", text |-> "New tenant"]

\* The output of a component that is not mounted.
NoView ==
    [open |-> FALSE, label |-> "", empty |-> "", rows |-> <<>>,
     newTenant |-> [to |-> "", text |-> ""]]

\* One evaluation of the component function with popover state o, active
\* tenant t, organization slug g and query data d.  `view` is the element
\* tree returned; `data` is the query data after the evaluation: sort()
\* sorts the array it is called on, which is the array held by the query
\* layer unless the data is undefined and `?? []` made a fresh one.
Render(o, t, g, d) ==
    LET sorted == sort(tenants(d)) IN
    [view |-> [open      |-> o,
               label     |-> Label(t, d),
               empty     |-> CommandEmpty,
               rows      |-> [i \in 1..Len(sorted) |-> TenantRow(sorted[i], g)],
               newTenant |-> NewTenant(g)],
     data |-> IF d.defined THEN [d EXCEPT !.tenants = sorted] ELSE d]

\* Variant: popover state that survives the unmount.
useStateInitialKept(o) == o

\* useState(false): the popover state of a fresh mount; o is the value the
\* previous mount was discarded with.
useStateInitial(o) == FALSE

\* Variant: an empty dependency list, the effect runs on mount only.
useEffectMountOnly(wasMounted, deps, t) == ~wasMounted

\* Variant: no dependency list, the effect runs after every commit.
useEffectEveryCommit(wasMounted, deps, t) == TRUE

\* useEffect(..., [tenant]): whether a commit schedules the effect.  It is
\* scheduled by the mount and by a commit whose dependency differs from
\* the one of the previous commit.
useEffect(wasMounted, deps, t) == ~wasMounted \/ t # deps

\* () => { setOpen(false) }: the popover state the effect sets; o is the
\* state before.
effectCallback(o) == FALSE

----------------------------------------------------------------------------
(* State *)

VARIABLES
    mounted,     \* the component is in the tree
    open,        \* useState: popover visibility
    effectDeps,  \* the [tenant] dependency of the last commit
    effectPending, \* the effect is scheduled and not yet flushed
    view,        \* the committed output of the last render
    tenant,      \* useTenant().tenant
    org,         \* useOrganizationSlug()
    status,      \* query layer: "pending", "success" or "error"
    data,        \* query layer: the cached data of listTenants
    inflight,    \* query layer: keys of the requests outstanding
    fetched,     \* history: the latest successful response, as delivered
    step         \* history: the last event and the popover state before it

vars ==
    << mounted, open, effectDeps, effectPending, view, tenant, org, status, data, inflight,
       fetched, step >>

NoData == [defined |-> FALSE, tenants |-> <<>>]

Init ==
    /\ mounted = FALSE
    /\ open = FALSE
    /\ effectDeps = Undefined
    /\ effectPending = FALSE
    /\ view = NoView
    /\ tenant \in TenantUniverse \cup {Undefined}
    /\ org \in OrgSlugs
    /\ status = "pending"
    /\ data = NoData
    /\ inflight = {}
    /\ fetched = <<>>
    /\ step = [op |-> "Init", openBefore |-> FALSE]

----------------------------------------------------------------------------
(* Operations *)

\* Render and commit of a mounted component whose popover state is o,
\* under active tenant t, organization g and query data d, with the
\* requests fl outstanding.  A query key not observed before is fetched by
\* the query layer unless a request for it is outstanding.
Update(wasMounted, o, t, g, d, fl) ==
    LET r == Render(o, t, g, d)
    IN  /\ open' = o
        /\ effectDeps' = t
        /\ effectPending' = useEffect(wasMounted, effectDeps, t)
        /\ view' = r.view
        /\ data' = r.data
        /\ inflight' = IF ~wasMounted \/ QueryKey(g) # QueryKey(org)
                       THEN fl \cup {QueryKey(g)}
                       ELSE fl

\* History: the event of this step and the popover state before it.
Record(name) == step' = [op |-> name, openBefore |-> open]

\* The effect scheduled by the last commit runs, before anything else
\* happens to the component: setOpen(false), and the render and commit of
\* the new popover state.
FlushEffects ==
    /\ mounted
    /\ effectPending
    /\ LET o == effectCallback(open)
           r == Render(o, tenant, org, data)
       IN  /\ open' = o
           /\ view' = r.view
           /\ data' = r.data
    /\ effectPending' = FALSE
    /\ Record("FlushEffects")
    /\ UNCHANGED << mounted, effectDeps, tenant, org, status, inflight,
                    fetched >>

\* The ambient context or the query layer changes; the component re-renders
\* when it is mounted and is untouched when it is not.
Notify(t, g, d, fl) ==
    IF mounted
    THEN Update(TRUE, open, t, g, d, fl)
    ELSE /\ data' = d
         /\ inflight' = fl
         /\ UNCHANGED << open, effectDeps, effectPending, view >>

\* The component is mounted: first render, subscription to the query.
Mount ==
    /\ ~mounted
    /\ ~effectPending
    /\ mounted' = TRUE
    /\ Update(FALSE, useStateInitial(open), tenant, org, data, inflight)
    /\ Record("Mount")
    /\ UNCHANGED << tenant, org, status, fetched >>

\* The component is unmounted: its state and output are discarded.  `open`
\* keeps the value it was discarded with, which nothing reads but
\* useStateInitial's parameter.
Unmount ==
    /\ mounted
    /\ ~effectPending
    /\ mounted' = FALSE
    /\ view' = NoView
    /\ effectDeps' = Undefined
    /\ effectPending' = FALSE
    /\ Record("Unmount")
    /\ UNCHANGED << open, tenant, org, status, data, inflight, fetched >>

\* <Popover open={open} onOpenChange={setOpen}>: the popover asks for the
\* other visibility (trigger click, click outside, Escape).
OnOpenChange ==
    /\ mounted
    /\ ~effectPending
    /\ \E v \in BOOLEAN :
         /\ v # open
         /\ Update(TRUE, v, tenant, org, data, inflight)
    /\ Record("OnOpenChange")
    /\ UNCHANGED << mounted, tenant, org, status, fetched >>

\* The active tenant of the route `to` under organization g.
ResolveTenant(to, g) ==
    IF \E t \in TenantUniverse : to = "/" \o g \o "/" \o t.slug
    THEN CHOOSE t \in TenantUniverse : to = "/" \o g \o "/" \o t.slug
    ELSE Undefined

\* The user follows a link of the open popover: a tenant row or the
\* `New tenant` entry.  The router moves to the link's target and the
\* context resolves the active tenant from it.
Navigate ==
    /\ mounted
    /\ ~effectPending
    /\ open
    /\ \E to \in {view.rows[i].to : i \in 1..Len(view.rows)} \cup {view.newTenant.to} :
         LET t == ResolveTenant(to, org) IN
         /\ tenant' = t
         /\ Update(TRUE, open, t, org, data, inflight)
         /\ Record(IF t = tenant THEN "NavigateSame" ELSE "Navigate")
    /\ UNCHANGED << mounted, org, status, fetched >>

\* The active tenant of the context changes for a reason outside the
\* component (another link, the browser history).
TenantChange ==
    /\ ~effectPending
    /\ \E t \in (TenantUniverse \cup {Undefined}) \ {tenant} :
         /\ tenant' = t
         /\ Notify(t, org, data, inflight)
    /\ Record("TenantChange")
    /\ UNCHANGED << mounted, org, status, fetched >>

\* The organization slug of the context changes.
OrgChange ==
    /\ ~effectPending
    /\ \E g \in OrgSlugs \ {org} :
         /\ org' = g
         /\ Notify(tenant, g, data, inflight)
    /\ Record("OrgChange")
    /\ UNCHANGED << mounted, tenant, status, fetched >>

\* The query layer fetches the observed query again (window focus,
\* invalidation) unless a request for it is outstanding.
Refetch ==
    /\ mounted
    /\ ~effectPending
    /\ QueryKey(org) \notin inflight
    /\ inflight' = inflight \cup {QueryKey(org)}
    /\ Record("Refetch")
    /\ UNCHANGED << mounted, open, effectDeps, effectPending, view, tenant,
                    org, status, data, fetched >>

\* A request succeeds with the response resp: the query layer stores it and
\* notifies the component.
FetchSuccess ==
    /\ ~effectPending
    /\ \E k \in inflight, resp \in Responses :
         /\ fetched' = resp
         /\ Notify(tenant, org, [defined |-> TRUE, tenants |-> resp],
                   inflight \ {k})
    /\ status' = "success"
    /\ Record("FetchSuccess")
    /\ UNCHANGED << mounted, tenant, org >>

\* A request fails: the query layer records the error, keeps the data it
\* holds and notifies the component.
FetchFailure ==
    /\ ~effectPending
    /\ \E k \in inflight : Notify(tenant, org, data, inflight \ {k})
    /\ status' = "error"
    /\ Record("FetchFailure")
    /\ UNCHANGED << mounted, tenant, org, fetched >>

Next ==
    \/ Mount
    \/ FlushEffects
    \/ Unmount
    \/ OnOpenChange
    \/ Navigate
    \/ TenantChange
    \/ OrgChange
    \/ Refetch
    \/ FetchSuccess
    \/ FetchFailure

Spec == Init /\ [][Next]_vars

TypeOK ==
    /\ mounted \in BOOLEAN
    /\ open \in BOOLEAN
    /\ effectPending \in BOOLEAN
    /\ tenant \in TenantUniverse \cup {Undefined}
    /\ org \in OrgSlugs
    /\ status \in {"pending", "success", "error"}
    /\ inflight \subseteq {"listTenants"} \cup OrgSlugs

----------------------------------------------------------------------------
(* Properties *)

\* What a rendered row shows of a tenant record, and the same of a record.
RowShown(r) == [id |-> r.key, name |-> r.text]
Shown(t) == [id |-> t.id, name |-> t.name]

Count(s, x) == Cardinality({ i \in 1..Len(s) : s[i] = x })

\* a and b hold the same elements, each as often.
IsPermutation(a, b) ==
    /\ Len(a) = Len(b)
    /\ \A i \in 1..Len(a) : Count(a, a[i]) = Count(b, a[i])

RowsShown == [i \in 1..Len(view.rows) |-> RowShown(view.rows[i])]
FetchedShown == [i \in 1..Len(fetched) |-> Shown(fetched[i])]

\* The row that renders the record with identifier id.
RowOf(id) == CHOOSE i \in 1..Len(view.rows) : view.rows[i].key = id

\* C1: while the component is mounted, the rendered rows are the records of
\* the latest successful list-tenants response, every one of them and no
\* other, and no row's name compares greater than the name of the row
\* after it.
C1_RowsAreLatestFetchSorted ==
    mounted =>
        /\ IsPermutation(RowsShown, FetchedShown)
        /\ \A i \in 1..(Len(view.rows) - 1) :
             localeCompare(view.rows[i].text, view.rows[i + 1].text) <= 0

\* A mounted component renders a response that arrived out of order.
C1_Witness ==
    /\ mounted
    /\ Len(view.rows) >= 2
    /\ \E i \in 1..(Len(fetched) - 1) :
         localeCompare(fetched[i].name, fetched[i + 1].name) > 0

\* C2: a change of the active tenant under a mounted component schedules
\* the effect, and the step that follows a scheduled effect is the effect,
\* which leaves the popover closed in state and in output, whatever the
\* visibility was.
C2_TenantChangeCloses ==
    [][ /\ (mounted /\ mounted' /\ tenant' # tenant) => effectPending'
        /\ effectPending =>
             (~effectPending' /\ ~open' /\ ~view'.open /\ tenant' = tenant)
      ]_vars

\* The popover was open when the active tenant changed, and is closed now
\* that the effect ran.
C2_Witness ==
    /\ mounted
    /\ step.op = "FlushEffects"
    /\ step.openBefore
    /\ ~open
    /\ ~view.open

\* The events that are a render or a user interaction of the component,
\* as opposed to the query layer storing a response.
ComponentSteps ==
    {"Mount", "FlushEffects", "Unmount", "OnOpenChange", "Navigate",
     "NavigateSame", "TenantChange", "OrgChange"}

\* C3: no render and no user interaction of the component changes the
\* tenant collection held by the query layer: its records and their order
\* stay as they are.
C3_TenantsReadOnly ==
    [][ step'.op \in ComponentSteps => data' = data ]_vars

C5_LinkTargets ==
    mounted =>
        /\ view.newTenant.to = "/" \o org \o "/tenants/new"
        /\ Len(view.rows) = Len(fetched)
        /\ \A i \in 1..Len(view.rows) :
             \E j \in 1..Len(fetched) :
                /\ view.rows[i].key = fetched[j].id
                /\ view.rows[i].to = "/" \o org \o "/" \o fetched[j].slug

\* Rows are rendered, one of a record whose slug is not its name, and the
\* organization slug has just changed.
C5_Witness ==
    /\ mounted
    /\ step.op = "OrgChange"
    /\ Len(view.rows) >= 2
    /\ \E i \in 1..Len(view.rows) :
         view.rows[i].to # "/" \o org \o "/" \o view.rows[i].text

\* C6: a mount commits a closed popover, in state and in output, whatever
\* the visibility of the previous mount was when it was discarded.
C6_MountStartsClosed ==
    [][ (~mounted /\ mounted') => (~open' /\ ~view'.open) ]_vars

\* The component was mounted again after it was unmounted open.
C6_Witness ==
    /\ mounted
    /\ step.op = "Mount"
    /\ step.openBefore
    /\ ~open

\* C7: at most one request is outstanding, and it is a list-tenants
\* request.
C7_OneRequest ==
    /\ Cardinality(inflight) <= 1
    /\ inflight \subseteq {"listTenants"}

\* The organization changed under a mounted component while the request
\* was outstanding.
C7_Witness ==
    /\ mounted
    /\ step.op = "OrgChange"
    /\ inflight = {"listTenants"}

\* C8: the popover state of a mounted component changes only in the
\* open-change callback and in the effect that follows a change of the
\* active tenant; a response, a failure, a refetch, a change of the
\* organization slug and the selection of the active tenant's own row
\* leave it as it is and schedule no effect.
C8_OpenChangesOnlyByToggleOrTenant ==
    [][ /\ (mounted /\ mounted' /\ open' # open) =>
             \/ step'.op = "OnOpenChange"
             \/ /\ step'.op = "FlushEffects"
                /\ step.op \in {"Navigate", "TenantChange"}
        /\ (mounted /\ step'.op \in {"FetchSuccess", "FetchFailure", "Refetch",
                                     "OrgChange", "NavigateSame"}) =>
             (open' = open /\ ~effectPending')
      ]_vars

\* The row of the active tenant was selected and the popover is open.
C8_Witness ==
    /\ mounted
    /\ step.op = "NavigateSame"
    /\ tenant # Undefined
    /\ open
    /\ view.open
    /\ ~effectPending

\* C9: the rendered rows are a permutation of the fetched records, one row
\* per record with the record's name, and two records whose names compare
\* equal are rendered in the order the response had them in.
C9_RowsStablePermutation ==
    mounted =>
        /\ IsPermutation(RowsShown, FetchedShown)
        /\ \A i, j \in 1..Len(fetched) :
             (i < j /\ localeCompare(fetched[i].name, fetched[j].name) = 0)
                => RowOf(fetched[i].id) < RowOf(fetched[j].id)

\* The response holds two records of one name, and a record out of order.
C9_Witness ==
    /\ mounted
    /\ \E i, j \in 1..Len(fetched) :
         i < j /\ fetched[i].name = fetched[j].name
    /\ \E i \in 1..Len(fetched) : view.rows[i].key # fetched[i].id

\* C10: the output of a mounted component holds the `New tenant` entry
\* whatever the state of the fetch, and the trigger's label is the name of
\* the context's active tenant, empty when there is none.
C10_NewTenantAndLabel ==
    mounted =>
        /\ view.newTenant.text = "New tenant"
        /\ view.newTenant.to # ""
        /\ view.label = (IF tenant = Undefined THEN "" ELSE tenant.name)

\* Rows are rendered and none of them is the active tenant's.
C10_Witness ==
    /\ mounted
    /\ tenant # Undefined
    /\ view.rows # <<>>
    /\ \A i \in 1..Len(view.rows) : view.rows[i].key # tenant.id

====
